---- MODULE Spec2Model ----
(***************************************************************************)
(* The SearchALicious client: the request dispatcher fetchApi, which       *)
(* normalises every failure into an {error: {...}} value, and the two      *)
(* typed accessors getFlags and getApiHealth built on it.                  *)
(*                                                                         *)
(* A call is an async function: it runs up to an await, is suspended, and  *)
(* is resumed when the awaited promise settles.  Every action below is one *)
(* such run-to-the-next-await segment of one call.                         *)
(***************************************************************************)
EXTENDS Integers, Sequences, FiniteSets, TLC

(***************************************************************************)
(* Bounds                                                                  *)
(***************************************************************************)
\* number of call frames the caller may have open
NumCalls == 2
\* longest `detail` array of a 422 error body
MaxDetail == 2

Calls == 1..NumCalls

(***************************************************************************)
(* JavaScript values.  Every value is a record tagged by its kind, so that *)
(* values of different kinds can be compared.                              *)
(***************************************************************************)
Undefined == [k |-> "undefined"]
Null == [k |-> "null"]
Bool(b) == [k |-> "bool", b |-> b]
Num(n) == [k |-> "num", n |-> n]
Str(s) == [k |-> "str", s |-> s]
Arr(a) == [k |-> "arr", a |-> a]
Obj(f) == [k |-> "obj", f |-> f]
EmptyObj == Obj([x \in {} |-> x])

\* the outcome of response.json() on a body that is not JSON (or is empty,
\* or was already consumed): the promise rejects
Unparseable == [k |-> "unparseable"]

\* a completion of a piece of code: a value, or a thrown exception
Value(v) == [threw |-> FALSE, v |-> v]
Throw == [threw |-> TRUE, v |-> Undefined]

\* ToBoolean, as used by `!data`
Truthy(v) ==
  CASE v.k = "bool" -> v.b
    [] v.k = "num" -> v.n # 0
    [] v.k = "str" -> v.s # ""
    [] v.k \in {"undefined", "null"} -> FALSE
    [] OTHER -> TRUE

Nullish(v) == v.k \in {"undefined", "null"}

\* typeof v === "object" && v !== null : the values the `in` operator accepts
IsObject(v) == v.k \in {"obj", "arr"}

\* `key in v` for an object v and a key that is not an array index
In(key, v) == v.k = "obj" /\ key \in DOMAIN v.f

\* v.key on a value that is neither null nor undefined
Get(v, key) == IF In(key, v) THEN v.f[key] ELSE Undefined

(***************************************************************************)
(* error.ts                                                                *)
(***************************************************************************)
\* entries of ApiError.detail
DetailEntries ==
  { Obj([msg |-> Str("bad id"), type |-> Str("value_error"),
         loc |-> Arr(<<Str("query"), Str("id")>>)]),
    Obj([msg |-> Str("field required"), type |-> Str("missing"),
         loc |-> Arr(<<Str("body")>>)]) }

SeqsUpTo(S, n) == UNION {[1..m -> S] : m \in 0..n}

\* error bodies the client library hands over as res.error: an ApiError with
\* or without `detail`, a body whose `detail` is a plain string, or nothing
ApiError ==
  {Obj([detail |-> Arr(s)]) : s \in SeqsUpTo(DetailEntries, MaxDetail)}
    \cup {EmptyObj, Obj([detail |-> Str("Unprocessable Entity")]), Undefined}

\* the SearchALiciousError value
SearchALiciousError(statusCode, message) ==
  Obj([error |-> Obj([statusCode |-> Num(statusCode), message |-> Str(message)])])

SearchALiciousErrorWithDetails(statusCode, message, details) ==
  Obj([error |-> Obj([statusCode |-> Num(statusCode), message |-> Str(message),
                      details |-> details])])

(***************************************************************************)
(* The transport: what `await fct(path, options)` can produce              *)
(***************************************************************************)
Methods == {"GET", "POST", "PUT", "DELETE"}
FlagsPath == "/api/v1/flags"
HealthPath == "/health"
Paths == {FlagsPath, HealthPath}

\* Response.ok
Ok(status) == status \in 200..299

Flag == Obj([id |-> Num(1)])
FlagsResponse == Obj([flags |-> Arr(<<Flag>>)])
HealthResponse ==
  Obj([hostname |-> Str("host"), status |-> Str("ok"), timestamp |-> Num(1),
       results |-> Arr(<<Obj([checker |-> Str("db"), output |-> Str(""),
                              passed |-> Bool(TRUE), timestamp |-> Num(1),
                              expires |-> Num(2), response_time |-> Num(3)])>>)])

\* what response.json() may resolve to
Bodies ==
  { FlagsResponse, HealthResponse, Obj([flags |-> Arr(<<>>)]), EmptyObj,
    Obj([error |-> Str("oops")]), Arr(<<>>),
    Num(5), Str("ok"), Bool(TRUE),
    Null, Num(0), Str(""), Bool(FALSE), Undefined }

NoResponse == [status |-> 0, error |-> Undefined, body |-> Unparseable]

\* a resolved transport call: the HTTP status, the error body parsed by the
\* client library (read on the 422 path only) and the outcome of
\* response.json() (read on the other paths only)
Responses ==
  {[status |-> s, error |-> Undefined, body |-> b] :
      s \in {200, 201, 404, 500}, b \in Bodies \cup {Unparseable}}
    \cup {[status |-> 422, error |-> e, body |-> Unparseable] : e \in ApiError}

\* the inputs explored when calls overlap
OverlapResponses ==
  {[status |-> s, error |-> Undefined, body |-> b] :
      s \in {200, 404, 500}, b \in {FlagsResponse, Num(5), Unparseable}}
    \cup {[status |-> 422, error |-> e, body |-> Unparseable] :
            e \in {Undefined, Obj([detail |-> Arr(<<>>)])}}

(***************************************************************************)
(* fetchApi, piece by piece                                                *)
(***************************************************************************)
\* mutation: the catch block reports the exception it caught
UnexpectedErrorWithDetails ==
  SearchALiciousErrorWithDetails(500, "An unexpected error occurred", Str("TypeError"))

\* the catch block
UnexpectedError == SearchALiciousError(500, "An unexpected error occurred")

\* mutation: the malformed-response value lacks the outer `error` key
MalformedErrorBare ==
  Obj([statusCode |-> Num(500), message |-> Str("Malformed API response")])

\* `if (!data) return {...}`
MalformedError == SearchALiciousError(500, "Malformed API response")

\* mutation: the map picks the entry's `type`
ValidationDetailsType(error) ==
  IF Nullish(error) THEN Value(Undefined)
  ELSE LET detail == Get(error, "detail") IN
       IF Nullish(detail) THEN Value(Undefined)
       ELSE IF detail.k # "arr" THEN Throw
       ELSE Value(Arr([i \in 1..Len(detail.a) |-> Get(detail.a[i], "type")]))

\* res.error?.detail?.map((d) => d.msg)
ValidationDetails(error) ==
  IF Nullish(error) THEN Value(Undefined)
  ELSE LET detail == Get(error, "detail") IN
       IF Nullish(detail) THEN Value(Undefined)
       ELSE IF detail.k # "arr" THEN Throw
       ELSE IF \E i \in 1..Len(detail.a) : Nullish(detail.a[i]) THEN Throw
       ELSE Value(Arr([i \in 1..Len(detail.a) |-> Get(detail.a[i], "msg")]))

\* case 422
ValidationError(details) ==
  SearchALiciousErrorWithDetails(422, "Validation error", details)

\* mutation: every upstream failure is reported as a 500
UpstreamErrorFixed(status, errorDetails) ==
  SearchALiciousErrorWithDetails(500, "Error while requesting Nutripatrol API",
                                 errorDetails)

\* default: of the switch
UpstreamError(status, errorDetails) ==
  SearchALiciousErrorWithDetails(status, "Error while requesting Nutripatrol API",
                                 errorDetails)

\* mutation: the body is returned inside a `data` envelope
SuccessResultEnveloped(data) ==
  IF ~Truthy(data) THEN MalformedError ELSE Obj([data |-> data])

\* the code after `const data = await res.response.json()`
SuccessResult(data) == IF ~Truthy(data) THEN MalformedError ELSE data

(***************************************************************************)
(* The accessors' narrowing, after `await this.fetchApi(...)`              *)
(***************************************************************************)
\* `"error" in data` throws a TypeError when data is not an object
NarrowFlags(data) ==
  IF ~IsObject(data) THEN Throw
  ELSE IF In("error", data) THEN Value(data)
  ELSE Value(Get(data, "flags"))

NarrowHealth(data) ==
  IF ~IsObject(data) THEN Throw
  ELSE IF In("error", data) THEN Value(data)
  ELSE Value(data)

(***************************************************************************)
(* State                                                                   *)
(***************************************************************************)
VARIABLES
  overlap,   \* whether the caller opens a call while another is in flight
  pc,        \* where each call is suspended
  op,        \* the operation each call runs
  method,    \* fetchApi's arguments
  path,
  requests,  \* outbound HTTP requests each call has issued
  res,       \* fetchApi's local `res`, per frame
  parsing,   \* the body response.json() is parsing for the call
  ret,       \* what fetchApi resolved to
  result,    \* what the operation resolved to
  wire       \* history: what the transport delivered to each call

vars == <<overlap, pc, op, method, path, requests, res, parsing, ret, result, wire>>

\* mutation: `res` is kept on the client, one for all calls
SlotShared(c) == 1

\* the frame that holds a call's locals: each invocation has its own
Slot(c) == c

NoWire == [threw |-> FALSE, r |-> NoResponse]

Fresh ==
  /\ pc = [c \in Calls |-> "idle"]
  /\ op = [c \in Calls |-> "none"]
  /\ method = [c \in Calls |-> "none"]
  /\ path = [c \in Calls |-> "none"]
  /\ requests = [c \in Calls |-> 0]
  /\ res = [c \in Calls |-> NoResponse]
  /\ parsing = [c \in Calls |-> Unparseable]
  /\ ret = [c \in Calls |-> Undefined]
  /\ result = [c \in Calls |-> Undefined]
  /\ wire = [c \in Calls |-> NoWire]

\* the caller awaits each call before it makes the next
Init == overlap = FALSE /\ Fresh

\* the caller has several calls in flight
InitOverlap == overlap = TRUE /\ Fresh

(***************************************************************************)
(* Actions                                                                 *)
(***************************************************************************)
\* a call runs from its invocation to `await fct(path, options)`: the
\* request goes out
Invoke(c, o, m, p) ==
  /\ pc[c] = "idle"
  /\ overlap \/ \A d \in Calls : pc[d] = "idle"
  /\ pc' = [pc EXCEPT ![c] = "awaitTransport"]
  /\ op' = [op EXCEPT ![c] = o]
  /\ method' = [method EXCEPT ![c] = m]
  /\ path' = [path EXCEPT ![c] = p]
  /\ requests' = [requests EXCEPT ![c] = @ + 1]
  /\ UNCHANGED <<overlap, res, parsing, ret, result, wire>>

getFlags(c) == Invoke(c, "getFlags", "GET", FlagsPath)

getApiHealth(c) == Invoke(c, "getApiHealth", "GET", HealthPath)

\* the dispatcher called on its own
fetchApi(c) ==
  \E m \in (IF overlap THEN {"POST"} ELSE Methods),
     p \in (IF overlap THEN {FlagsPath} ELSE Paths) :
    Invoke(c, "fetchApi", m, p)

\* fetchApi returns v: a bare dispatcher call is complete, an accessor is
\* resumed later
Settle(c, v) ==
  /\ ret' = [ret EXCEPT ![c] = v]
  /\ IF op[c] = "fetchApi"
       THEN /\ pc' = [pc EXCEPT ![c] = "done"]
            /\ result' = [result EXCEPT ![c] = v]
       ELSE /\ pc' = [pc EXCEPT ![c] = "awaitFetchApi"]
            /\ UNCHANGED result

\* mutation: a failed transport call is issued again
TransportRejectsRetry(c) ==
  /\ pc[c] = "awaitTransport"
  /\ requests' = [requests EXCEPT ![c] = @ + 1]
  /\ UNCHANGED <<overlap, pc, op, method, path, res, parsing, ret, result, wire>>

\* the transport call throws or rejects: the catch block
TransportRejects(c) ==
  /\ pc[c] = "awaitTransport"
  /\ wire' = [wire EXCEPT ![c] = [threw |-> TRUE, r |-> NoResponse]]
  /\ Settle(c, UnexpectedError)
  /\ UNCHANGED <<overlap, op, method, path, requests, res, parsing>>

\* the transport call resolves with a 422
TransportResolves422(c) ==
  /\ pc[c] = "awaitTransport"
  /\ \E r \in (IF overlap THEN OverlapResponses ELSE Responses) :
       /\ ~Ok(r.status) /\ r.status = 422
       /\ wire' = [wire EXCEPT ![c] = [threw |-> FALSE, r |-> r]]
       /\ res' = [res EXCEPT ![Slot(c)] = r]
       /\ LET d == ValidationDetails(r.error) IN
            Settle(c, IF d.threw THEN UnexpectedError ELSE ValidationError(d.v))
  /\ UNCHANGED <<overlap, op, method, path, requests, parsing>>

\* the transport call resolves with anything else: response.json() is
\* called and awaited, in the default: branch or after the if
TransportResolves(c) ==
  /\ pc[c] = "awaitTransport"
  /\ \E r \in (IF overlap THEN OverlapResponses ELSE Responses) :
       /\ r.status # 422
       /\ wire' = [wire EXCEPT ![c] = [threw |-> FALSE, r |-> r]]
       /\ res' = [res EXCEPT ![Slot(c)] = r]
       /\ parsing' = [parsing EXCEPT ![c] = r.body]
       /\ pc' = [pc EXCEPT ![c] = IF Ok(r.status) THEN "awaitData" ELSE "awaitErrorDetails"]
  /\ UNCHANGED <<overlap, op, method, path, requests, ret, result>>

\* response.json() rejects, in either branch: the catch block
JsonRejects(c) ==
  /\ pc[c] \in {"awaitData", "awaitErrorDetails"}
  /\ parsing[c] = Unparseable
  /\ Settle(c, UnexpectedError)
  /\ UNCHANGED <<overlap, op, method, path, requests, res, parsing, wire>>

\* `const errorDetails = await res.response.json()` resolves
ErrorDetailsResolves(c) ==
  /\ pc[c] = "awaitErrorDetails"
  /\ parsing[c] # Unparseable
  /\ Settle(c, UpstreamError(res[Slot(c)].status, parsing[c]))
  /\ UNCHANGED <<overlap, op, method, path, requests, res, parsing, wire>>

\* `const data = await res.response.json()` resolves
DataResolves(c) ==
  /\ pc[c] = "awaitData"
  /\ parsing[c] # Unparseable
  /\ Settle(c, SuccessResult(parsing[c]))
  /\ UNCHANGED <<overlap, op, method, path, requests, res, parsing, wire>>

\* an accessor is resumed with fetchApi's value
Narrow(c, o, n) ==
  /\ pc[c] = "awaitFetchApi"
  /\ op[c] = o
  /\ pc' = [pc EXCEPT ![c] = IF n.threw THEN "threw" ELSE "done"]
  /\ result' = [result EXCEPT ![c] = n.v]
  /\ UNCHANGED <<overlap, op, method, path, requests, res, parsing, ret, wire>>

getFlagsNarrow(c) == Narrow(c, "getFlags", NarrowFlags(ret[c]))

getApiHealthNarrow(c) == Narrow(c, "getApiHealth", NarrowHealth(ret[c]))

\* the caller takes the outcome; the frame is gone
Return(c) ==
  /\ pc[c] \in {"done", "threw"}
  /\ pc' = [pc EXCEPT ![c] = "idle"]
  /\ op' = [op EXCEPT ![c] = "none"]
  /\ method' = [method EXCEPT ![c] = "none"]
  /\ path' = [path EXCEPT ![c] = "none"]
  /\ requests' = [requests EXCEPT ![c] = 0]
  /\ res' = [res EXCEPT ![c] = NoResponse]
  /\ parsing' = [parsing EXCEPT ![c] = Unparseable]
  /\ ret' = [ret EXCEPT ![c] = Undefined]
  /\ result' = [result EXCEPT ![c] = Undefined]
  /\ wire' = [wire EXCEPT ![c] = NoWire]
  /\ UNCHANGED overlap

Next ==
  \E c \in Calls :
    \/ getFlags(c)
    \/ getApiHealth(c)
    \/ fetchApi(c)
    \/ TransportRejects(c)
    \/ TransportResolves422(c)
    \/ TransportResolves(c)
    \/ JsonRejects(c)
    \/ ErrorDetailsResolves(c)
    \/ DataResolves(c)
    \/ getFlagsNarrow(c)
    \/ getApiHealthNarrow(c)
    \/ Return(c)

Spec == Init /\ [][Next]_vars

SpecOverlap == InitOverlap /\ [][Next]_vars

(***************************************************************************)
(* fetchApi and the operations read as functions of what the transport     *)
(* delivers                                                                *)
(***************************************************************************)
\* fetchApi run from start to end on the transport outcome w
FetchApiResult(w) ==
  IF w.threw THEN UnexpectedError
  ELSE IF ~Ok(w.r.status)
    THEN IF w.r.status = 422
           THEN LET d == ValidationDetails(w.r.error) IN
                  IF d.threw THEN UnexpectedError ELSE ValidationError(d.v)
           ELSE IF w.r.body = Unparseable THEN UnexpectedError
                ELSE UpstreamError(w.r.status, w.r.body)
    ELSE IF w.r.body = Unparseable THEN UnexpectedError
         ELSE SuccessResult(w.r.body)

\* an operation run from start to end on the transport outcome w
OperationResult(o, w) ==
  CASE o = "getFlags" -> NarrowFlags(FetchApiResult(w))
    [] o = "getApiHealth" -> NarrowHealth(FetchApiResult(w))
    [] OTHER -> Value(FetchApiResult(w))

(***************************************************************************)
(* Properties                                                              *)
(***************************************************************************)
Accessors == {"getFlags", "getApiHealth"}

\* fetchApi has returned to its caller
FetchApiSettled(c) == pc[c] \in {"awaitFetchApi", "done", "threw"}

\* the operation is over, one way or the other
Completed(c) == pc[c] \in {"done", "threw"}

\* the transport call resolved with a response
Responded(c) == FetchApiSettled(c) /\ ~wire[c].threw

\* a body whose parse yields no value or a falsy value
EmptyBody(b) == b \in {Undefined, Null, Num(0), Str(""), Bool(FALSE)}

\* {error: {statusCode, message, details?}}
IsNormalizedError(v) ==
  /\ v.k = "obj"
  /\ DOMAIN v.f = {"error"}
  /\ v.f.error.k = "obj"
  /\ {"statusCode", "message"} \subseteq DOMAIN v.f.error.f
  /\ DOMAIN v.f.error.f \subseteq {"statusCode", "message", "details"}
  /\ v.f.error.f.statusCode.k = "num"
  /\ v.f.error.f.message.k = "str"

\* a list of flag records
IsFlagList(v) ==
  v.k = "arr" /\ \A i \in 1..Len(v.a) : v.a[i].k = "obj"

\* a health object
IsHealth(v) ==
  v.k = "obj" /\ DOMAIN v.f = {"hostname", "status", "timestamp", "results"}

IsPayload(o, v) == IF o = "getFlags" THEN IsFlagList(v) ELSE IsHealth(v)

\* C1: no public operation ever completes by raising, whatever the
\* transport does and whatever JSON value a 2xx body parses to.
C1_NoExceptionEscapes ==
  \A c \in Calls : op[c] \in Accessors => pc[c] # "threw"

\* C2: a completed public operation returned either its domain payload or a
\* NormalizedError, and not both.
C2_PayloadOrError ==
  \A c \in Calls :
    (op[c] \in Accessors /\ pc[c] = "done") =>
      IsPayload(op[c], result[c]) # IsNormalizedError(result[c])

\* C3: on a 2xx response whose body parses to a non-empty (truthy) JSON
\* value, fetchApi returns that value unchanged, for every method and path.
C3_SuccessBodyUnchanged ==
  \A c \in Calls :
    (Responded(c) /\ Ok(wire[c].r.status)
       /\ wire[c].r.body # Unparseable /\ ~EmptyBody(wire[c].r.body)) =>
      /\ method[c] \in Methods /\ path[c] \in Paths
      /\ ret[c] = wire[c].r.body

C3_Witness ==
  \E c \in Calls :
    /\ pc[c] = "done" /\ op[c] = "fetchApi"
    /\ method[c] = "PUT" /\ path[c] = HealthPath
    /\ wire[c].r.status = 201 /\ wire[c].r.body = HealthResponse
    /\ ret[c] = HealthResponse

\* C4: on a 422 whose error body has a `detail` array of length N, fetchApi
\* returns {error: {statusCode: 422, message: "Validation error", details: D}}
\* where D has length N and D[i] is detail[i].msg, in order.
C4_ValidationDetails ==
  \A c \in Calls :
    (Responded(c) /\ wire[c].r.status = 422 /\ In("detail", wire[c].r.error)
       /\ wire[c].r.error.f.detail.k = "arr") =>
      LET detail == wire[c].r.error.f.detail.a IN
        /\ DOMAIN ret[c].f = {"error"}
        /\ DOMAIN ret[c].f.error.f = {"statusCode", "message", "details"}
        /\ ret[c].f.error.f.statusCode = Num(422)
        /\ ret[c].f.error.f.message = Str("Validation error")
        /\ ret[c].f.error.f.details.k = "arr"
        /\ Len(ret[c].f.error.f.details.a) = Len(detail)
        /\ \A i \in 1..Len(detail) :
             ret[c].f.error.f.details.a[i] = detail[i].f.msg

C4_Witness ==
  \E c \in Calls :
    /\ FetchApiSettled(c) /\ wire[c].r.status = 422
    /\ In("detail", wire[c].r.error)
    /\ wire[c].r.error.f.detail.k = "arr"
    /\ Len(wire[c].r.error.f.detail.a) = MaxDetail
    /\ wire[c].r.error.f.detail.a[1] # wire[c].r.error.f.detail.a[2]
    /\ ret[c].f.error.f.details.a[1] = Str("field required")
    /\ ret[c].f.error.f.details.a[2] = Str("bad id")

\* C5 as stated: on every non-2xx response other than 422, fetchApi returns
\* the response's own status, the message "Error while requesting
\* Nutripatrol API" and the parsed body as details.
C5_UpstreamErrorAlways ==
  \A c \in Calls :
    (Responded(c) /\ ~Ok(wire[c].r.status) /\ wire[c].r.status # 422) =>
      ret[c] = Obj([error |-> Obj([statusCode |-> Num(wire[c].r.status),
                                   message |-> Str("Error while requesting Nutripatrol API"),
                                   details |-> wire[c].r.body])])

\* C5 as amended: that holds when the body of the response parses; when the
\* parse fails, fetchApi returns the 500 "An unexpected error occurred"
\* value, without the response's status.
C5_UpstreamError ==
  \A c \in Calls :
    (Responded(c) /\ ~Ok(wire[c].r.status) /\ wire[c].r.status # 422) =>
      IF wire[c].r.body # Unparseable
        THEN ret[c] = Obj([error |-> Obj([statusCode |-> Num(wire[c].r.status),
                                          message |-> Str("Error while requesting Nutripatrol API"),
                                          details |-> wire[c].r.body])])
        ELSE ret[c] = Obj([error |-> Obj([statusCode |-> Num(500),
                                          message |-> Str("An unexpected error occurred")])])

C5_Witness ==
  \E c \in Calls :
    /\ FetchApiSettled(c) /\ wire[c].r.status = 404
    /\ wire[c].r.body = Obj([error |-> Str("oops")])
    /\ ret[c].f.error.f.statusCode = Num(404)
    /\ ret[c].f.error.f.details = Obj([error |-> Str("oops")])

\* C6: when the transport call throws or rejects, fetchApi returns exactly
\* {error: {statusCode: 500, message: "An unexpected error occurred"}}, with
\* no details, whatever the method and path.
C6_TransportFailure ==
  \A c \in Calls :
    (FetchApiSettled(c) /\ wire[c].threw) =>
      /\ method[c] \in Methods /\ path[c] \in Paths
      /\ ret[c] = Obj([error |-> Obj([statusCode |-> Num(500),
                                      message |-> Str("An unexpected error occurred")])])
      /\ "details" \notin DOMAIN ret[c].f.error.f

C6_Witness ==
  \E c \in Calls :
    /\ pc[c] = "done" /\ op[c] = "fetchApi"
    /\ method[c] = "POST" /\ path[c] = FlagsPath
    /\ wire[c].threw
    /\ ret[c].f.error.f.statusCode = Num(500)

\* C7: on a 2xx response whose body parses to no value or to a falsy value,
\* fetchApi returns {error: {statusCode: 500, message: "Malformed API
\* response"}}, whatever the method and route.
C7_MalformedResponse ==
  \A c \in Calls :
    (Responded(c) /\ Ok(wire[c].r.status) /\ EmptyBody(wire[c].r.body)) =>
      /\ method[c] \in Methods /\ path[c] \in Paths
      /\ ret[c] = Obj([error |-> Obj([statusCode |-> Num(500),
                                      message |-> Str("Malformed API response")])])

C7_Witness ==
  \E c \in Calls :
    /\ pc[c] = "done" /\ op[c] = "getApiHealth"
    /\ wire[c].r.status = 200 /\ wire[c].r.body = Num(0)
    /\ result[c].f.error.f.message = Str("Malformed API response")

\* C8: a call issues exactly one outbound request, on every path: one is out
\* from the invocation on, and no second one follows, failure or not.
C8_OneRequest ==
  \A c \in Calls :
    /\ pc[c] = "idle" => requests[c] = 0
    /\ pc[c] # "idle" => requests[c] = 1

C8_Witness ==
  \E c \in Calls :
    /\ pc[c] = "done" /\ op[c] = "getFlags"
    /\ wire[c].threw
    /\ requests[c] = 1

\* C9: an accessor returns fetchApi's value unchanged when it carries an
\* `error` key; otherwise getFlags returns its `flags` field and
\* getApiHealth returns it whole.
C9_Narrowing ==
  \A c \in Calls :
    (op[c] \in Accessors /\ FetchApiSettled(c) /\ pc[c] # "awaitFetchApi") =>
      /\ pc[c] = "done"
      /\ result[c] = IF ret[c].k = "obj" /\ "error" \in DOMAIN ret[c].f THEN ret[c]
                     ELSE IF op[c] = "getApiHealth" THEN ret[c]
                     ELSE IF ret[c].k = "obj" /\ "flags" \in DOMAIN ret[c].f
                            THEN ret[c].f.flags
                            ELSE Undefined

\* C10: with calls in flight together, every completed call has the outcome
\* it has when run alone on what the transport delivered to it, and a step
\* of one call leaves the other calls' frames as they were.
C10_State ==
  \A c \in Calls :
    Completed(c) =>
      LET alone == OperationResult(op[c], wire[c]) IN
        /\ alone.threw = (pc[c] = "threw")
        /\ result[c] = alone.v

C10_Step ==
  \E c \in Calls :
    \A d \in Calls \ {c} :
      /\ pc'[d] = pc[d] /\ op'[d] = op[d]
      /\ method'[d] = method[d] /\ path'[d] = path[d]
      /\ requests'[d] = requests[d] /\ res'[d] = res[d]
      /\ parsing'[d] = parsing[d] /\ ret'[d] = ret[d]
      /\ result'[d] = result[d] /\ wire'[d] = wire[d]

C10_Independent == []C10_State /\ [][C10_Step]_vars

C10_Witness ==
  /\ overlap
  /\ pc[1] = "done" /\ pc[2] = "done"
  /\ wire[1].r.status = 404 /\ wire[2].r.status = 500
  /\ wire[1].r.body = Num(5) /\ wire[2].r.body = FlagsResponse
  /\ result[1].f.error.f.statusCode = Num(404)
  /\ result[2].f.error.f.statusCode = Num(500)

====
